---- MODULE Spec2Model ----
(***************************************************************************)
(* Shortest-path engine (dijkstra) and edge annotator (getColoredEdges)    *)
(* of route-rainbow-mapper, src/utils/graphAlgorithms.ts.                  *)
(*                                                                         *)
(* Numbers are fixed-point: every time and distance is an integer number   *)
(* of 1/Scale units, so that the traffic multipliers 0.8, 1.0 and 1.5 and  *)
(* their products with integer base weights are exact.                     *)
(***************************************************************************)
EXTENDS Integers, Sequences, FiniteSets, TLC

VARIABLES graph, sourceId, trafficLevel,
          distances, previous, unvisited, order,
          paths, dijkstraResult,
          graphShape, destinationId, coloredEdges, pc, other, page, gen

vars == <<graph, sourceId, trafficLevel, distances, previous, unvisited,
          order, paths, dijkstraResult, graphShape, destinationId,
          coloredEdges, pc, other, page, gen>>

-----------------------------------------------------------------------------
(* Bounds of the explored inputs *)

MaxEdges == 3
MaxWeight == 1

-----------------------------------------------------------------------------
(* Values of the JavaScript run time *)

Scale == 10
Infinity == 1000000
Undefined == -2
Null == "<null>"

-----------------------------------------------------------------------------
(* sampleData.ts *)

TrafficLevel == {"low", "medium", "high"}

trafficMultipliers == [low |-> 8, medium |-> 10, high |-> 15]

timeBuckets ==
  << [max |-> 5 * Scale,  color |-> "#4ade80"],
     [max |-> 10 * Scale, color |-> "#facc15"],
     [max |-> 15 * Scale, color |-> "#fb923c"],
     [max |-> Infinity,   color |-> "#ef4444"] >>

RECURSIVE BucketScan(_, _)
BucketScan(i, time) ==
  IF i > Len(timeBuckets) THEN timeBuckets[Len(timeBuckets)].color
  ELSE IF time <= timeBuckets[i].max THEN timeBuckets[i].color
  ELSE BucketScan(i + 1, time)

getColorForTime(time) == BucketScan(1, time)

-----------------------------------------------------------------------------
(* dijkstra *)

Range(s) == {s[i] : i \in DOMAIN s}

NodeIds(g) == Range(g.nodes)

InitDistances(g, src) == [n \in NodeIds(g) |-> IF n = src THEN 0 ELSE Infinity]

InitPrevious(g) == [n \in NodeIds(g) |-> Null]

(* the scan for the unvisited node of minimum distance; a Set iterates in *)
(* insertion order, which is the order of graph.nodes                      *)
RECURSIVE MinScan(_, _, _, _, _, _)
MinScan(nodes, i, unv, dist, currentNode, minDistance) ==
  IF i > Len(nodes) THEN currentNode
  ELSE IF nodes[i] \in unv /\ dist[nodes[i]] < minDistance
       THEN MinScan(nodes, i + 1, unv, dist, nodes[i], dist[nodes[i]])
       ELSE MinScan(nodes, i + 1, unv, dist, currentNode, minDistance)

(* the scan with the running minimum never updated *)
RECURSIVE MinScanStale(_, _, _, _, _)
MinScanStale(nodes, i, unv, dist, currentNode) ==
  IF i > Len(nodes) THEN currentNode
  ELSE IF nodes[i] \in unv /\ dist[nodes[i]] < Infinity
       THEN MinScanStale(nodes, i + 1, unv, dist, nodes[i])
       ELSE MinScanStale(nodes, i + 1, unv, dist, currentNode)

FindMinStale(g, unv, dist) == MinScanStale(g.nodes, 1, unv, dist, Null)

(* the scan that also takes a node equal to the running minimum *)
RECURSIVE MinScanLastTie(_, _, _, _, _, _)
MinScanLastTie(nodes, i, unv, dist, currentNode, minDistance) ==
  IF i > Len(nodes) THEN currentNode
  ELSE IF nodes[i] \in unv /\ dist[nodes[i]] <= minDistance
       THEN MinScanLastTie(nodes, i + 1, unv, dist, nodes[i], dist[nodes[i]])
       ELSE MinScanLastTie(nodes, i + 1, unv, dist, currentNode, minDistance)

FindMinLastTie(g, unv, dist) ==
  MinScanLastTie(g.nodes, 1, unv, dist, Null, Infinity)

(* the first unvisited node with a finite distance, whatever it is *)
FindMinFirstReached(g, unv, dist) ==
  LET reached == {i \in DOMAIN g.nodes :
                    g.nodes[i] \in unv /\ dist[g.nodes[i]] < Infinity}
  IN  IF reached = {} THEN Null
      ELSE g.nodes[CHOOSE i \in reached : \A j \in reached : i <= j]

FindMin(g, unv, dist) == MinScan(g.nodes, 1, unv, dist, Null, Infinity)

ShouldBreak(g, unv, dist) ==
  LET currentNode == FindMin(g, unv, dist)
  IN  IF currentNode = Null THEN TRUE ELSE dist[currentNode] = Infinity

(* the comparison that also lets an equal candidate through *)
ImprovesOrEqual(tentativeDistance, recorded) == tentativeDistance <= recorded

Improves(tentativeDistance, recorded) == tentativeDistance < recorded

(* the weight divided by the multiplier, in the same unit *)
AdjustedWeightDivided(edge, mult) == (edge.weight * Scale * Scale) \div mult

(* edge.weight * multiplier *)
AdjustedWeight(edge, mult) == edge.weight * mult

(* the loop that neither skips a settled neighbor nor asks for a strict *)
(* improvement                                                         *)
RECURSIVE RelaxEdgesNoSkip(_, _, _, _, _, _, _)
RelaxEdgesNoSkip(edges, i, currentNode, unv, mult, dist, prev) ==
  IF i > Len(edges) THEN [distances |-> dist, previous |-> prev]
  ELSE
    LET edge == edges[i]
        neighbor == IF edge.source = currentNode THEN edge.target ELSE edge.source
        tentativeDistance == dist[currentNode] + AdjustedWeight(edge, mult)
    IN  IF (edge.source = currentNode \/ edge.target = currentNode)
           /\ neighbor \in DOMAIN dist
           /\ tentativeDistance <= dist[neighbor]
        THEN RelaxEdgesNoSkip(edges, i + 1, currentNode, unv, mult,
                              [dist EXCEPT ![neighbor] = tentativeDistance],
                              [prev EXCEPT ![neighbor] = currentNode])
        ELSE RelaxEdgesNoSkip(edges, i + 1, currentNode, unv, mult, dist, prev)

(* the loop over all edges for the node just settled *)
RECURSIVE RelaxEdges(_, _, _, _, _, _, _)
RelaxEdges(edges, i, currentNode, unv, mult, dist, prev) ==
  IF i > Len(edges) THEN [distances |-> dist, previous |-> prev]
  ELSE
    LET edge == edges[i]
        neighbor == IF edge.source = currentNode THEN edge.target ELSE edge.source
        adjustedWeight == AdjustedWeight(edge, mult)
        tentativeDistance == dist[currentNode] + adjustedWeight
    IN  IF (edge.source = currentNode \/ edge.target = currentNode)
           /\ neighbor \in unv
           /\ Improves(tentativeDistance, dist[neighbor])
        THEN RelaxEdges(edges, i + 1, currentNode, unv, mult,
                        [dist EXCEPT ![neighbor] = tentativeDistance],
                        [prev EXCEPT ![neighbor] = currentNode])
        ELSE RelaxEdges(edges, i + 1, currentNode, unv, mult, dist, prev)

(* the iteration that leaves the current node in the unvisited set *)
SettleStepKeep(g, level, st) ==
  LET currentNode == FindMin(g, st.unvisited, st.distances)
      r == RelaxEdges(g.edges, 1, currentNode, st.unvisited \ {currentNode},
                      trafficMultipliers[level], st.distances, st.previous)
  IN  [distances |-> r.distances, previous |-> r.previous,
       unvisited |-> st.unvisited, order |-> Append(st.order, currentNode)]

(* one iteration of the main loop that does not break *)
SettleStep(g, level, st) ==
  LET currentNode == FindMin(g, st.unvisited, st.distances)
      unv == st.unvisited \ {currentNode}
      r == RelaxEdges(g.edges, 1, currentNode, unv, trafficMultipliers[level],
                      st.distances, st.previous)
  IN  [distances |-> r.distances, previous |-> r.previous, unvisited |-> unv,
       order |-> Append(st.order, currentNode)]

LoopDone(g, st) ==
  st.unvisited = {} \/ ShouldBreak(g, st.unvisited, st.distances)

RECURSIVE RunLoop(_, _, _)
RunLoop(g, level, st) ==
  IF LoopDone(g, st) THEN st ELSE RunLoop(g, level, SettleStep(g, level, st))

(* follow the chain of previous nodes, appending each *)
RECURSIVE TraceBackReversed(_, _, _)
TraceBackReversed(prev, current, path) ==
  IF current = Null THEN path
  ELSE TraceBackReversed(prev, prev[current], path \o <<current>>)

(* follow the chain of previous nodes, prepending each *)
RECURSIVE TraceBack(_, _, _)
TraceBack(prev, current, path) ==
  IF current = Null THEN path
  ELSE TraceBack(prev, prev[current], <<current>> \o path)

(* the rebuilding without the case of the source *)
ReconstructPathNoSource(src, dist, prev, node) ==
  IF prev[node] = Null \/ dist[node] = Infinity THEN <<>>
  ELSE TraceBack(prev, node, <<>>)

(* the rebuilding without the case of a node that has no path *)
ReconstructPathNoCheck(src, dist, prev, node) ==
  IF node = src THEN <<node>>
  ELSE TraceBack(prev, node, <<>>)

(* the rebuilding that stops one link early *)
RECURSIVE TraceBackShort(_, _, _)
TraceBackShort(prev, current, path) ==
  IF prev[current] = Null THEN path
  ELSE TraceBackShort(prev, prev[current], <<current>> \o path)

ReconstructPathShort(src, dist, prev, node) ==
  IF node = src THEN <<node>>
  ELSE IF prev[node] = Null \/ dist[node] = Infinity THEN <<>>
  ELSE TraceBackShort(prev, node, <<>>)

ReconstructPath(src, dist, prev, node) ==
  IF node = src THEN <<node>>
  ELSE IF prev[node] = Null \/ dist[node] = Infinity THEN <<>>
  ELSE TraceBack(prev, node, <<>>)

ReconstructPaths(g, src, dist, prev) ==
  [node \in NodeIds(g) |-> ReconstructPath(src, dist, prev, node)]

InitState(g, src) ==
  [distances |-> InitDistances(g, src), previous |-> InitPrevious(g),
   unvisited |-> NodeIds(g), order |-> <<>>]

dijkstra(g, src, level) ==
  LET st == RunLoop(g, level, InitState(g, src))
  IN  [distances |-> st.distances,
       paths |-> ReconstructPaths(g, src, st.distances, st.previous)]

-----------------------------------------------------------------------------
(* getColoredEdges *)

NeutralColor == "#d1d5db"
NoArrival == -1

EdgeKey(a, b) == a \o "-" \o b

Lookup(dist, id) == IF id \in DOMAIN dist THEN dist[id] ELSE Undefined

OrInfinity(v) == IF v = Undefined \/ v = 0 THEN Infinity ELSE v

IsFiniteNumber(v) == v # Undefined /\ v # Infinity

ValidDestination(g, dest) ==
  IF dest # Null /\ dest \notin NodeIds(g) THEN Null ELSE dest

(* the highlighting of every returned path when no destination is given *)
PathEdgesAllPaths(p, dest) ==
  UNION { UNION { {EdgeKey(p[d][i], p[d][i + 1]), EdgeKey(p[d][i + 1], p[d][i])} :
                    i \in 1..(Len(p[d]) - 1) }
          : d \in IF dest # Null /\ dest \in DOMAIN p THEN {dest} ELSE DOMAIN p }

PathEdges(p, dest) ==
  IF dest # Null /\ dest \in DOMAIN p /\ Len(p[dest]) > 1
  THEN UNION { {EdgeKey(p[dest][i], p[dest][i + 1]),
                EdgeKey(p[dest][i + 1], p[dest][i])} : i \in 1..(Len(p[dest]) - 1) }
  ELSE {}

IsOnPath(edge, pathEdges) ==
  EdgeKey(edge.source, edge.target) \in pathEdges
    \/ EdgeKey(edge.target, edge.source) \in pathEdges

Farther(edge, dist) ==
  LET sourceDistance == OrInfinity(Lookup(dist, edge.source))
      targetDistance == OrInfinity(Lookup(dist, edge.target))
  IN  IF sourceDistance > targetDistance THEN edge.source ELSE edge.target

EmittedArrival(isOnPath, arrivalTime) == IF isOnPath THEN arrivalTime ELSE NoArrival

EmittedColor(isOnPath, color) == IF isOnPath THEN color ELSE NeutralColor

(* the annotation that colours every edge by its farther end *)
ColorEdgeAllEdges(edge, src, dest, dist, pathEdges) ==
  LET arrivalTime == Lookup(dist, Farther(edge, dist))
  IN  [source |-> edge.source, target |-> edge.target, weight |-> edge.weight,
       color |-> IF IsFiniteNumber(arrivalTime) THEN getColorForTime(arrivalTime)
                 ELSE NeutralColor,
       arrivalTime |-> arrivalTime,
       isOnPath |-> IsOnPath(edge, pathEdges)]

ColorEdge(edge, src, dest, dist, pathEdges) ==
  LET isOnPath == IsOnPath(edge, pathEdges)
      onSelectedPath == isOnPath /\ dest # Null
      atSource == edge.source = src \/ edge.target = src
      neighbor == IF edge.source = src THEN edge.target ELSE edge.source
      arrivalTime ==
        IF onSelectedPath THEN Lookup(dist, Farther(edge, dist))
        ELSE IF atSource THEN Lookup(dist, neighbor)
        ELSE NoArrival
      color ==
        IF (onSelectedPath \/ atSource) /\ IsFiniteNumber(arrivalTime)
        THEN getColorForTime(arrivalTime)
        ELSE NeutralColor
  IN  [source |-> edge.source, target |-> edge.target, weight |-> edge.weight,
       color |-> EmittedColor(isOnPath, color),
       arrivalTime |-> EmittedArrival(isOnPath, arrivalTime),
       isOnPath |-> isOnPath]

(* the annotation that emits one edge per key *)
FirstOfKey(edges, i) ==
  \A j \in 1..(i - 1) :
     EdgeKey(edges[j].source, edges[j].target) # EdgeKey(edges[i].source, edges[i].target)

RECURSIVE ColorFrom(_, _, _, _, _, _)
ColorFrom(edges, i, src, dest, dist, pathEdges) ==
  IF i > Len(edges) THEN <<>>
  ELSE (IF FirstOfKey(edges, i)
        THEN <<ColorEdge(edges[i], src, dest, dist, pathEdges)>> ELSE <<>>)
       \o ColorFrom(edges, i + 1, src, dest, dist, pathEdges)

ColorAllDedup(edges, src, dest, dist, pathEdges) ==
  ColorFrom(edges, 1, src, dest, dist, pathEdges)

ColorAll(edges, src, dest, dist, pathEdges) ==
  [i \in 1..Len(edges) |-> ColorEdge(edges[i], src, dest, dist, pathEdges)]

(* getColoredEdges from the result r of its call of dijkstra *)
(* a destination that is no node is taken for an invalid call *)
AnnotateRejectDest(g, src, dest0, r) ==
  IF src \notin NodeIds(g) THEN <<>>
  ELSE IF dest0 # Null /\ dest0 \notin NodeIds(g) THEN <<>>
  ELSE ColorAll(g.edges, src, dest0, r.distances, PathEdges(r.paths, dest0))

Annotate(g, src, dest0, r) ==
  IF src \notin NodeIds(g) THEN <<>>
  ELSE LET dest == ValidDestination(g, dest0)
       IN  ColorAll(g.edges, src, dest, r.distances, PathEdges(r.paths, dest))

getColoredEdges(g, src, level, dest0) ==
  Annotate(g, src, dest0, dijkstra(g, src, level))

(* what a caller passes as graph: the graph, null, or the graph without *)
(* its nodes or without its edges                                       *)
GraphShapes == {"graph", "null", "noNodes", "noEdges"}

(* the check of the parameters that looks at the graph value only *)
InvalidParametersGraphOnly(shape, src) == shape = "null" \/ src = Null

InvalidParameters(shape, src) ==
  shape = "null" \/ shape = "noNodes" \/ shape = "noEdges" \/ src = Null

(* the call on any graph value: past the check of the parameters,         *)
(* graph.nodes.some of a graph without nodes throws outside the try, and  *)
(* a graph without edges either lacks the source or makes dijkstra throw  *)
(* inside the try, where the catch returns []                             *)
getColoredEdgesOn(shape, g, src, dest0, r) ==
  IF InvalidParameters(shape, src) THEN [threw |-> FALSE, value |-> <<>>]
  ELSE IF shape \in {"null", "noNodes"} THEN [threw |-> TRUE, value |-> <<>>]
  ELSE IF shape = "noEdges" THEN [threw |-> FALSE, value |-> <<>>]
  ELSE [threw |-> FALSE, value |-> Annotate(g, src, dest0, r)]

-----------------------------------------------------------------------------
(* Inputs *)

NodeNames == <<"A", "B", "C">>
MissingId == "X"

SeqsUpTo(S, k) == UNION {[1..m -> S] : m \in 0..k}

Edges(ids, weights) ==
  {[source |-> s, target |-> t, weight |-> w] :
     s \in ids, t \in ids, w \in weights}

NoLoop(e) == e.source # e.target

NameIndex(id) == CHOOSE i \in 1..Len(NodeNames) : NodeNames[i] = id

EdgeRank(e) ==
  (NameIndex(e.source) * (Len(NodeNames) + 1) + NameIndex(e.target))
     * (MaxWeight + 1) + e.weight

(* dijkstra and getColoredEdges treat every edge alike whatever its place *)
(* in the list, so this family lists a graph's edges in one order only;   *)
(* parallel and repeated edges are kept                                   *)
Canonical(es) ==
  \A i \in 1..(Len(es) - 1) : EdgeRank(es[i]) <= EdgeRank(es[i + 1])

(* every graph over the first n node names with at most MaxEdges edges of *)
(* weight 0..MaxWeight, in either stored orientation                      *)
BoundedGraphs ==
  UNION { LET nodes == SubSeq(NodeNames, 1, n)
          IN  {[nodes |-> nodes, edges |-> es] :
                 es \in {es \in SeqsUpTo({e \in Edges(Range(nodes), 0..MaxWeight) :
                                            NoLoop(e)}, MaxEdges) : Canonical(es)}}
        : n \in 1..Len(NodeNames) }

(* the triangle with heavier edges: the two-edge route can beat the edge *)
TriangleWeights == {1, 2, 3}

EitherWay(a, b, weights) ==
  {[source |-> a, target |-> b, weight |-> w] : w \in weights}
    \cup {[source |-> b, target |-> a, weight |-> w] : w \in weights}

TriangleGraphs ==
  {[nodes |-> <<"A", "B", "C">>, edges |-> <<ab, bc, ac>>] :
     ab \in EitherWay("A", "B", TriangleWeights),
     bc \in EitherWay("B", "C", TriangleWeights),
     ac \in EitherWay("A", "C", TriangleWeights)}

(* the three-node line of the specification's scenarios, with and without *)
(* the disconnected node D, in every stored orientation and order         *)
ScenarioGraphs ==
  {[nodes |-> nodes, edges |-> es] :
     nodes \in {<<"A", "B", "C">>, <<"A", "B", "C", "D">>},
     es \in UNION { {<<ab, bc>>, <<bc, ab>>} :
                      ab \in EitherWay("A", "B", {5}),
                      bc \in EitherWay("B", "C", {5}) } }

(* graphs with an edge that names a node absent from the node list *)
Dangling(e) == e.source = MissingId \/ e.target = MissingId

DanglingGraphs ==
  {[nodes |-> <<"A", "B">>, edges |-> es] :
     es \in {es \in SeqsUpTo({e \in Edges({"A", "B", MissingId}, {1}) : NoLoop(e)}, 2) :
               \E i \in DOMAIN es : Dangling(es[i])} }

(* node ids that themselves contain the separator of the edge keys *)
DashIds == {"A", "B-C", "A-B", "C"}

DashGraphs ==
  {[nodes |-> nodes, edges |-> es] :
     nodes \in {<<"A", "B-C">>, <<"A", "B-C", "A-B">>,
                <<"A", "B-C", "A-B", "C">>},
     es \in {es \in [1..2 -> {e \in Edges(DashIds, {1}) : NoLoop(e)}] :
               es[1].source = "A"} }

Graphs ==
  BoundedGraphs \cup TriangleGraphs \cup ScenarioGraphs
    \cup DanglingGraphs \cup DashGraphs

SourceInputs(g) == NodeIds(g) \cup {MissingId}

DestinationInputs(g) == NodeIds(g) \cup {MissingId, Null}

(* the calls explored: any destination on the graph, none on the others *)
CallInputs(g) ==
  {<<"graph", dest>> : dest \in DestinationInputs(g)}
    \cup {<<shape, Null>> : shape \in GraphShapes \ {"graph"}}

-----------------------------------------------------------------------------
(* The state machine: one call of dijkstra, stepped through its main loop, *)
(* and then the call of getColoredEdges on the same graph, source and      *)
(* traffic level, whose own call of dijkstra returns the stepped result    *)

State == [distances |-> distances, previous |-> previous,
          unvisited |-> unvisited, order |-> order]

(* no second invocation *)
NoCall == [pc |-> "none"]

InitCall ==
  /\ graph \in Graphs
  /\ sourceId \in SourceInputs(graph)
  /\ trafficLevel \in TrafficLevel
  /\ distances = InitDistances(graph, sourceId)
  /\ previous = InitPrevious(graph)
  /\ unvisited = NodeIds(graph)
  /\ order = <<>>
  /\ paths = <<>>
  /\ dijkstraResult = "none"
  /\ graphShape = "graph"
  /\ destinationId = Null
  /\ coloredEdges = <<>>
  /\ pc = "loop"

(* no Index page and no graph generation *)
NoPage == [effect |-> "none"]
NoGen == [pc |-> "none"]

Init == InitCall /\ other = NoCall /\ page = NoPage /\ gen = NoGen

(* an iteration of the main loop that settles a node and relaxes its edges *)
DijkstraSettle ==
  /\ pc = "loop"
  /\ ~LoopDone(graph, State)
  /\ LET st == SettleStep(graph, trafficLevel, State)
     IN  /\ distances' = st.distances
         /\ previous' = st.previous
         /\ unvisited' = st.unvisited
         /\ order' = st.order
  /\ UNCHANGED <<graph, sourceId, trafficLevel, paths, dijkstraResult,
                 graphShape, destinationId, coloredEdges, pc, other, page, gen>>

Return ==
  /\ paths' = ReconstructPaths(graph, sourceId, distances, previous)
  /\ dijkstraResult' = "value"
  /\ pc' = "returned"
  /\ UNCHANGED <<graph, sourceId, trafficLevel, distances, previous, unvisited,
                 order, graphShape, destinationId, coloredEdges, other,
                 page, gen>>

(* the loop ends because every node is settled; the paths are rebuilt *)
DijkstraComplete ==
  /\ pc = "loop"
  /\ unvisited = {}
  /\ Return

(* the loop breaks because every remaining node is unreachable *)
DijkstraBreak ==
  /\ pc = "loop"
  /\ unvisited # {}
  /\ ShouldBreak(graph, unvisited, distances)
  /\ Return

CallGetColoredEdges ==
  /\ pc = "returned"
  /\ \E call \in CallInputs(graph) :
       LET out == getColoredEdgesOn(call[1], graph, sourceId, call[2],
                                    [distances |-> distances, paths |-> paths])
       IN  /\ graphShape' = call[1]
           /\ destinationId' = call[2]
           /\ coloredEdges' = out.value
           /\ pc' = IF out.threw THEN "threw" ELSE "done"
  /\ UNCHANGED <<graph, sourceId, trafficLevel, distances, previous, unvisited,
                 order, paths, dijkstraResult, other, page, gen>>

Next ==
  \/ DijkstraSettle
  \/ DijkstraComplete
  \/ DijkstraBreak
  \/ CallGetColoredEdges

Spec == Init /\ [][Next]_vars

(* the call runs to its end: a synchronous function is not suspended *)
DijkstraStep == DijkstraSettle \/ DijkstraComplete \/ DijkstraBreak

(* the graphs on which the run to the end is followed *)
FairGraphs == TriangleGraphs \cup ScenarioGraphs \cup DanglingGraphs \cup DashGraphs

InitFair == Init /\ graph \in FairGraphs

SpecFair == InitFair /\ [][DijkstraStep]_vars /\ WF_vars(DijkstraStep)

-----------------------------------------------------------------------------
(* A second invocation whose steps interleave with those of the first *)

(* the two stored forms of the line, with and without the node D *)
PairGraphs ==
  {g \in ScenarioGraphs : g.edges[1].source = "A" /\ g.edges[2].source = "B"}

(* the working sets of the first invocation *)
SharedLocals == State

(* the working sets of the second invocation: its own *)
OtherLocals == other.locals

OtherCall(g, src, level) ==
  [graph |-> g, sourceId |-> src, trafficLevel |-> level,
   locals |-> InitState(g, src), paths |-> <<>>, destinationId |-> Null,
   coloredEdges |-> <<>>, pc |-> "loop"]

InitPair ==
  /\ InitCall
  /\ graph \in PairGraphs
  /\ other \in {OtherCall(graph, src, level) :
                  src \in SourceInputs(graph), level \in TrafficLevel}
  /\ page = NoPage
  /\ gen = NoGen

FirstUnchanged ==
  UNCHANGED <<graph, sourceId, trafficLevel, distances, previous, unvisited,
              order, paths, dijkstraResult, graphShape, destinationId,
              coloredEdges, pc, page, gen>>

OtherSettle ==
  /\ other.pc = "loop"
  /\ ~LoopDone(other.graph, OtherLocals)
  /\ other' = [other EXCEPT
                 !.locals = SettleStep(other.graph, other.trafficLevel, OtherLocals)]
  /\ FirstUnchanged

OtherReturn ==
  /\ other.pc = "loop"
  /\ LoopDone(other.graph, OtherLocals)
  /\ other' = [other EXCEPT
                 !.paths = ReconstructPaths(other.graph, other.sourceId,
                                            OtherLocals.distances,
                                            OtherLocals.previous),
                 !.pc = "returned"]
  /\ FirstUnchanged

OtherGetColoredEdges ==
  /\ other.pc = "returned"
  /\ \E dest \in DestinationInputs(other.graph) :
       other' = [other EXCEPT
                   !.destinationId = dest,
                   !.coloredEdges =
                      Annotate(other.graph, other.sourceId, dest,
                               [distances |-> OtherLocals.distances,
                                paths |-> other.paths]),
                   !.pc = "done"]
  /\ FirstUnchanged

NextPair ==
  \/ DijkstraSettle
  \/ DijkstraComplete
  \/ DijkstraBreak
  \/ CallGetColoredEdges
  \/ OtherSettle
  \/ OtherReturn
  \/ OtherGetColoredEdges

SpecPair == InitPair /\ [][NextPair]_vars

-----------------------------------------------------------------------------
(* The Index page: its state, its handlers and its effect *)

(* no call of the algorithm is followed step by step *)
NoRun ==
  /\ graph = [nodes |-> <<>>, edges |-> <<>>]
  /\ sourceId = MissingId
  /\ trafficLevel = "medium"
  /\ distances = <<>>
  /\ previous = <<>>
  /\ unvisited = {}
  /\ order = <<>>
  /\ paths = <<>>
  /\ dijkstraResult = "none"
  /\ graphShape = "graph"
  /\ destinationId = Null
  /\ coloredEdges = <<>>
  /\ pc = "idle"
  /\ other = NoCall

RunUnchanged ==
  UNCHANGED <<graph, sourceId, trafficLevel, distances, previous, unvisited,
              order, paths, dijkstraResult, graphShape, destinationId,
              coloredEdges, pc, other>>

(* ids A, B, C, ... of generateNodeId, for the node counts explored *)
GeneratedIds == <<"A", "B", "C", "D", "E", "F", "G", "H">>

DefaultNodeCount == 8
MinNodeCount == 3

(* the node counts the number input is set to *)
NodeCounts == {MinNodeCount, DefaultNodeCount}

(* the least and the greatest travel time drawn for an edge *)
MinDrawnWeight == 3
MaxDrawnWeight == 20

(* graphs generateRandomGraph can return: each node connected to the    *)
(* next one, the last node drawing no edge; or no node drawing an edge  *)
(* and ensureConnectedGraph connecting every node to the first (the     *)
(* latter explored for the least node count only)                       *)
ChainGraph(n, w) ==
  [nodes |-> SubSeq(GeneratedIds, 1, n),
   edges |-> [i \in 1..(n - 1) |->
                [source |-> GeneratedIds[i], target |-> GeneratedIds[i + 1],
                 weight |-> w]]]

StarGraph(n, w) ==
  [nodes |-> SubSeq(GeneratedIds, 1, n),
   edges |-> [i \in 1..(n - 1) |->
                [source |-> GeneratedIds[i + 1], target |-> GeneratedIds[1],
                 weight |-> w]]]

GeneratedGraphs(n) ==
  IF n = MinNodeCount
  THEN {ChainGraph(n, MinDrawnWeight), StarGraph(n, MaxDrawnWeight)}
  ELSE {ChainGraph(n, MinDrawnWeight)}

(* the hours of the time slider explored: the default and both sides of *)
(* every bound of the rush hours                                        *)
Hours == {6, 7, 9, 10, 12, 15, 16, 18, 19}

(* distances of the page are counted in hundredths: 1.2 has one more digit *)
RushFactor == 12
PlainFactor == 10

(* the rush hours with the bounds left out *)
IsRushHourExclusive(timeOfDay) ==
  (timeOfDay > 7 /\ timeOfDay < 9) \/ (timeOfDay > 16 /\ timeOfDay < 18)

IsRushHour(timeOfDay) ==
  (timeOfDay >= 7 /\ timeOfDay <= 9) \/ (timeOfDay >= 16 /\ timeOfDay <= 18)

timeAdjustedDistances(dist, timeOfDay) ==
  [key \in DOMAIN dist |->
     IF dist[key] = Infinity THEN Infinity
     ELSE IF IsRushHour(timeOfDay) THEN dist[key] * RushFactor
     ELSE dist[key] * PlainFactor]

(* nodes[0]?.id || 'A' *)
FirstNodeId(g) == IF Len(g.nodes) > 0 THEN g.nodes[1] ELSE "A"

InitPage ==
  /\ NoRun
  /\ gen = NoGen
  /\ \E g \in GeneratedGraphs(DefaultNodeCount) :
        page = [nodeCount |-> DefaultNodeCount,
                randomGraph |-> g,
                sourceNodeId |-> FirstNodeId(g),
                destinationNodeId |-> Null,
                trafficLevel |-> "medium",
                timeOfDay |-> 12,
                coloredEdges |-> getColoredEdges(g, FirstNodeId(g), "medium", Null),
                distances |-> <<>>,
                paths |-> <<>>,
                effect |-> "pending"]

(* the state the effect sets from the result r of its dijkstra call *)
SetState(p, r) ==
  [p EXCEPT
     !.coloredEdges = Annotate(p.randomGraph, p.sourceNodeId,
                               p.destinationNodeId, r),
     !.distances = timeAdjustedDistances(r.distances, p.timeOfDay),
     !.paths = r.paths,
     !.effect = "done"]

(* the effect of the page *)
useEffect(p) ==
  SetState(p, dijkstra(p.randomGraph, p.sourceNodeId, p.trafficLevel))

(* the dependencies of the effect *)
Dependencies(p) ==
  <<p.randomGraph, p.sourceNodeId, p.destinationNodeId, p.trafficLevel,
    p.timeOfDay>>

(* the effect runs after the first render *)
Mount ==
  /\ page.effect = "pending"
  /\ page' = useEffect(page)
  /\ RunUnchanged /\ UNCHANGED gen

(* the state after a handler and the render it causes: the effect has run *)
(* if one of its dependencies has changed                                 *)
Rendered(next) ==
  IF Dependencies(next) = Dependencies(page) THEN next ELSE useEffect(next)

(* the handler that leaves the source as it is *)
handleGenerateGraphKeepSource(newGraph) ==
  [page EXCEPT !.randomGraph = newGraph, !.destinationNodeId = Null]

handleGenerateGraph(newGraph) ==
  [page EXCEPT !.randomGraph = newGraph,
               !.sourceNodeId = FirstNodeId(newGraph),
               !.destinationNodeId = Null]

handleNodeClick(nodeId) ==
  IF nodeId = page.sourceNodeId THEN page
  ELSE IF page.destinationNodeId = nodeId
       THEN [page EXCEPT !.destinationNodeId = Null]
       ELSE [page EXCEPT !.destinationNodeId = nodeId]

handleDestinationSelect(nodeId) ==
  IF page.destinationNodeId = nodeId
  THEN [page EXCEPT !.destinationNodeId = Null]
  ELSE [page EXCEPT !.destinationNodeId = nodeId]

setSourceNodeId(nodeId) == [page EXCEPT !.sourceNodeId = nodeId]

PageIdle == page.effect = "done"

GenerateGraph ==
  /\ PageIdle
  /\ \E newGraph \in GeneratedGraphs(page.nodeCount) :
        page' = Rendered(handleGenerateGraph(newGraph))
  /\ RunUnchanged /\ UNCHANGED gen

(* a click on a node drawn by the graph visualization *)
NodeClick ==
  /\ PageIdle
  /\ \E nodeId \in NodeIds(page.randomGraph) :
        page' = Rendered(handleNodeClick(nodeId))
  /\ RunUnchanged /\ UNCHANGED gen

(* a click on a row of the results panel, which lists every node but the *)
(* source                                                                *)
DestinationSelect ==
  /\ PageIdle
  /\ \E nodeId \in NodeIds(page.randomGraph) \ {page.sourceNodeId} :
        page' = Rendered(handleDestinationSelect(nodeId))
  /\ RunUnchanged /\ UNCHANGED gen

(* a choice in the source select of the control panel, which lists every *)
(* node                                                                  *)
SourceNodeChange ==
  /\ PageIdle
  /\ \E nodeId \in NodeIds(page.randomGraph) :
        page' = Rendered(setSourceNodeId(nodeId))
  /\ RunUnchanged /\ UNCHANGED gen

TrafficLevelChange ==
  /\ PageIdle
  /\ \E level \in TrafficLevel :
        page' = Rendered([page EXCEPT !.trafficLevel = level])
  /\ RunUnchanged /\ UNCHANGED gen

TimeOfDayChange ==
  /\ PageIdle
  /\ \E hour \in Hours :
        page' = Rendered([page EXCEPT !.timeOfDay = hour])
  /\ RunUnchanged /\ UNCHANGED gen

(* the number input: not a dependency of the effect *)
NodeCountChange ==
  /\ PageIdle
  /\ \E n \in NodeCounts : page' = [page EXCEPT !.nodeCount = n]
  /\ RunUnchanged /\ UNCHANGED gen

NextPage ==
  \/ Mount
  \/ GenerateGraph
  \/ NodeClick
  \/ DestinationSelect
  \/ SourceNodeChange
  \/ TrafficLevelChange
  \/ TimeOfDayChange
  \/ NodeCountChange

SpecPage == InitPage /\ [][NextPage]_vars

-----------------------------------------------------------------------------
(* generateRandomGraph and ensureConnectedGraph *)

(* Math.random() is r / RandomSteps for a draw r in 0..RandomSteps - 1 *)
RandomSteps == 18
Random == 0..(RandomSteps - 1)

(* the draws followed for a travel time: the least and the greatest *)
WeightDraws == {0, RandomSteps - 1}

(* Math.floor(Math.random() * (max - min + 1)) + min *)
randomInt(min, max, r) == ((r * (max - min + 1)) \div RandomSteps) + min

(* the node counts the generator is called with *)
GenNodeCounts == {2, 3}

MaxEdgesPerNode == 3

(* 0-based index i of the code is position i + 1 of the sequence *)
generateNodeId(index) == GeneratedIds[index + 1]

GenNodes(n) == [k \in 1..n |-> generateNodeId(k - 1)]

maxEdgesPerNode(nodes) ==
  IF MaxEdgesPerNode < Len(nodes) - 1 THEN MaxEdgesPerNode ELSE Len(nodes) - 1

(* the neighbors pushed for node id, in the order of the edges *)
RECURSIVE Neighbors(_, _, _)
Neighbors(edges, k, id) ==
  IF k > Len(edges) THEN <<>>
  ELSE (IF edges[k].source = id THEN <<edges[k].target>> ELSE <<>>)
       \o (IF edges[k].target = id THEN <<edges[k].source>> ELSE <<>>)
       \o Neighbors(edges, k + 1, id)

adjacencyList(nodes, edges) ==
  [id \in Range(nodes) |-> Neighbors(edges, 1, id)]

RECURSIVE dfs(_, _, _)
RECURSIVE dfsEach(_, _, _, _)
dfs(adj, nodeId, visited) ==
  dfsEach(adj, adj[nodeId], 1, visited \cup {nodeId})

dfsEach(adj, neighbors, k, visited) ==
  IF k > Len(neighbors) THEN visited
  ELSE dfsEach(adj, neighbors, k + 1,
               IF neighbors[k] \in visited THEN visited
               ELSE dfs(adj, neighbors[k], visited))

(* nodes.find(n => visited.has(n.id)) *)
FirstVisited(nodes, visited) ==
  nodes[CHOOSE k \in DOMAIN nodes :
          /\ nodes[k] \in visited
          /\ \A m \in 1..(k - 1) : nodes[m] \notin visited]

(* the edges pushed for the unvisited nodes, ws being the draws of their *)
(* travel times                                                          *)
RECURSIVE ConnectUnvisited(_, _, _, _, _)
ConnectUnvisited(nodes, unvisitedNodes, k, visited, ws) ==
  IF k > Len(unvisitedNodes) THEN <<>>
  ELSE <<[source |-> unvisitedNodes[k],
          target |-> FirstVisited(nodes, visited),
          weight |-> randomInt(MinDrawnWeight, MaxDrawnWeight, ws[k])]>>
       \o ConnectUnvisited(nodes, unvisitedNodes, k + 1,
                           visited \cup {unvisitedNodes[k]}, ws)

(* the check that changes nothing *)
ensureConnectedGraphSkip(nodes, edges, ws) == edges

(* the edges after ensureConnectedGraph *)
ensureConnectedGraph(nodes, edges, ws) ==
  IF Len(nodes) <= 1 THEN edges
  ELSE LET visited == dfs(adjacencyList(nodes, edges), nodes[1], {})
           unvisitedNodes == SelectSeq(nodes, LAMBDA id : id \notin visited)
       IN  IF Cardinality(visited) < Len(nodes)
           THEN edges \o ConnectUnvisited(nodes, unvisitedNodes, 1, visited, ws)
           ELSE edges

InitGen ==
  /\ NoRun
  /\ page = NoPage
  /\ \E nodeCount \in GenNodeCounts :
        gen = [pc |-> "node", nodes |-> GenNodes(nodeCount), edges |-> <<>>,
               i |-> 0, j |-> 0, edgeCount |-> 0, connectedNodes |-> {},
               targetIndex |-> 0, attempts |-> 0]

GenUnchanged == RunUnchanged /\ UNCHANGED page

(* the next node draws its number of edges *)
DrawEdgeCount ==
  /\ gen.pc = "node"
  /\ gen.i < Len(gen.nodes)
  /\ \E r \in Random :
        gen' = [gen EXCEPT !.edgeCount = randomInt(1, maxEdgesPerNode(gen.nodes), r),
                           !.connectedNodes = {},
                           !.j = 0,
                           !.attempts = 0,
                           !.pc = "edge"]
  /\ GenUnchanged

(* one draw of a target; the loop repeats while the draw is the node *)
(* itself or a node already connected, at most nodes.length times    *)
DrawTarget ==
  /\ gen.pc = "edge"
  /\ gen.j < gen.edgeCount
  /\ \E r \in Random :
        LET targetIndex == randomInt(0, Len(gen.nodes) - 1, r)
            again == (targetIndex = gen.i \/ targetIndex \in gen.connectedNodes)
                        /\ gen.attempts + 1 < Len(gen.nodes)
        IN  gen' = [gen EXCEPT !.targetIndex = targetIndex,
                               !.attempts = gen.attempts + 1,
                               !.pc = IF again THEN "edge" ELSE "drawn"]
  /\ GenUnchanged

(* the target is kept, with a travel time, if it is another node not yet *)
(* connected                                                             *)
PushEdge ==
  /\ gen.pc = "drawn"
  /\ IF gen.targetIndex # gen.i /\ gen.targetIndex \notin gen.connectedNodes
     THEN \E r \in WeightDraws :
            gen' = [gen EXCEPT
                      !.connectedNodes = gen.connectedNodes \cup {gen.targetIndex},
                      !.edges = Append(gen.edges,
                                  [source |-> gen.nodes[gen.i + 1],
                                   target |-> gen.nodes[gen.targetIndex + 1],
                                   weight |-> randomInt(MinDrawnWeight,
                                                        MaxDrawnWeight, r)]),
                      !.j = gen.j + 1,
                      !.attempts = 0,
                      !.pc = "edge"]
     ELSE gen' = [gen EXCEPT !.j = gen.j + 1, !.attempts = 0, !.pc = "edge"]
  /\ GenUnchanged

NextNode ==
  /\ gen.pc = "edge"
  /\ gen.j >= gen.edgeCount
  /\ gen' = [gen EXCEPT !.i = gen.i + 1, !.pc = "node"]
  /\ GenUnchanged

EnsureConnected ==
  /\ gen.pc = "node"
  /\ gen.i >= Len(gen.nodes)
  /\ \E ws \in [1..Len(gen.nodes) -> WeightDraws] :
        gen' = [gen EXCEPT !.edges = ensureConnectedGraph(gen.nodes, gen.edges, ws),
                           !.pc = "done"]
  /\ GenUnchanged

NextGen ==
  \/ DrawEdgeCount
  \/ DrawTarget
  \/ PushEdge
  \/ NextNode
  \/ EnsureConnected

SpecGen == InitGen /\ [][NextGen]_vars

(* the stepped call returns what the call taken as a whole returns, which *)
(* is what getColoredEdges gets from its own call of dijkstra              *)
SteppedCallIsTheCall ==
  pc = "returned" =>
     [distances |-> distances, paths |-> paths]
        = dijkstra(graph, sourceId, trafficLevel)

-----------------------------------------------------------------------------
(* Reference definitions for the properties, independent of the algorithm *)

(* dijkstra has returned its result and nothing has been done since *)
Returned == pc = "returned"

SourcePresent == sourceId \in NodeIds(graph)

Min(S) == CHOOSE x \in S : \A y \in S : x <= y

Max(S) == CHOOSE x \in S : \A y \in S : x >= y

Joins(e, a, b) ==
  (e.source = a /\ e.target = b) \/ (e.source = b /\ e.target = a)

Joining(g, a, b) == {i \in DOMAIN g.edges : Joins(g.edges[i], a, b)}

(* the edges of node n whose other end is a node of the graph *)
StepsInto(g, n) ==
  {i \in DOMAIN g.edges :
     \E m \in NodeIds(g) : Joins(g.edges[i], m, n)}

OtherEnd(e, n) == IF e.source = n THEN e.target ELSE e.source

(* from the least cost d of the walks of at most k edges, that of the walks *)
(* of at most k + 1 edges                                                   *)
WalkStep(g, mult, d) ==
  [n \in NodeIds(g) |->
     Min({d[n]} \cup
         {d[OtherEnd(g.edges[i], n)] + g.edges[i].weight * mult :
            i \in {j \in StepsInto(g, n) : d[OtherEnd(g.edges[j], n)] < Infinity}})]

(* the least cost of a walk from src to each node: the costs of the walks *)
(* of at most k edges, for growing k, until one more edge gains nothing    *)
RECURSIVE WalkMin(_, _, _)
WalkMin(g, mult, d) ==
  LET next == WalkStep(g, mult, d)
  IN  IF next = d THEN d ELSE WalkMin(g, mult, next)

TrueDistance(g, src, level) ==
  WalkMin(g, trafficMultipliers[level],
          [n \in NodeIds(g) |-> IF n = src THEN 0 ELSE Infinity])

RECURSIVE Closure(_, _)
Closure(g, S) ==
  LET T == S \cup {n \in NodeIds(g) :
                     \E i \in DOMAIN g.edges, m \in S : Joins(g.edges[i], m, n)}
  IN  IF T = S THEN S ELSE Closure(g, T)

Reachable(g, src) == Closure(g, {src} \cap NodeIds(g))

RECURSIVE PathCost(_, _, _, _)
PathCost(g, mult, path, i) ==
  IF i >= Len(path) THEN 0
  ELSE Min({g.edges[j].weight : j \in Joining(g, path[i], path[i + 1])}) * mult
         + PathCost(g, mult, path, i + 1)

PathJoined(g, path) ==
  \A i \in 1..(Len(path) - 1) : Joining(g, path[i], path[i + 1]) # {}

-----------------------------------------------------------------------------
(* C1: when dijkstra has returned for a source that is a node of the graph, *)
(* the distance of every node is the least cost, over all walks from the    *)
(* source to the node, of the sum of edge weight times traffic multiplier,  *)
(* parallel edges counting as separate edges (and the infinity sentinel     *)
(* when there is no walk).                                                  *)
C1_DistancesAreMinimal ==
  (Returned /\ SourcePresent) =>
     distances = TrueDistance(graph, sourceId, trafficLevel)

(* C1 witness: a returned call in which the two-edge route to a node beats *)
(* a direct edge from the source to it                                     *)
C1_Witness_Detour ==
  /\ Returned /\ SourcePresent
  /\ \E n \in NodeIds(graph) :
       /\ Len(paths[n]) = 3
       /\ \E i \in Joining(graph, sourceId, n) :
            graph.edges[i].weight * trafficMultipliers[trafficLevel] > distances[n]

(* C2: when dijkstra has returned for a source that is a node of the graph, *)
(* distances[sourceId] = 0 and paths[sourceId] = [sourceId].                *)
C2_SourceEntry ==
  (Returned /\ SourcePresent) =>
     /\ distances[sourceId] = 0
     /\ paths[sourceId] = <<sourceId>>

(* C2 witness: a returned call whose source has an edge and is not the     *)
(* first node of the graph                                                  *)
C2_Witness_SourceWithEdges ==
  /\ Returned /\ SourcePresent
  /\ graph.nodes[1] # sourceId
  /\ \E n \in NodeIds(graph) : Joining(graph, sourceId, n) # {}

(* C3: for every node reachable from the source, every two consecutive      *)
(* nodes of the returned path are joined by an edge of the graph, and the   *)
(* sum over the path's steps of base weight (of the lightest edge joining   *)
(* the two nodes, the one relaxation uses) times traffic multiplier equals  *)
(* the returned distance of the node.                                       *)
C3_PathCostIsDistance ==
  (Returned /\ SourcePresent) =>
     \A n \in Reachable(graph, sourceId) :
        /\ PathJoined(graph, paths[n])
        /\ PathCost(graph, trafficMultipliers[trafficLevel], paths[n], 1) = distances[n]

(* C3 witness: a returned path of two steps of positive cost, one of them  *)
(* over a pair of nodes joined by parallel edges of different weights      *)
C3_Witness_TwoSteps ==
  /\ Returned /\ SourcePresent
  /\ \E n \in Reachable(graph, sourceId) :
       /\ Len(paths[n]) = 3
       /\ distances[n] > 0
       /\ \E i, j \in Joining(graph, paths[n][2], paths[n][3]) :
            graph.edges[i].weight # graph.edges[j].weight

(* C4: when dijkstra has returned, every node not reachable from the source *)
(* has the infinity sentinel as distance and the empty sequence as path,    *)
(* and the call has returned a value, not raised an error.                  *)
C4_UnreachableNodes ==
  Returned =>
     /\ dijkstraResult = "value"
     /\ \A n \in NodeIds(graph) \ Reachable(graph, sourceId) :
          distances[n] = Infinity /\ paths[n] = <<>>

(* C4 witness: a returned call on a disconnected graph: one node reached    *)
(* over an edge, another isolated                                           *)
C4_Witness_Disconnected ==
  /\ Returned /\ SourcePresent
  /\ Cardinality(Reachable(graph, sourceId)) > 1
  /\ \E n \in NodeIds(graph) \ Reachable(graph, sourceId) :
       \A i \in DOMAIN graph.edges : ~ (graph.edges[i].source = n \/ graph.edges[i].target = n)

(* C5: when dijkstra is called with a sourceId that is not the id of any   *)
(* node of the graph, the call ends by signalling InvalidInput and returns *)
(* no distance map and path map.                                           *)
C5_MissingSourceIsInvalidInput ==
  (pc # "loop" /\ ~SourcePresent) => dijkstraResult = "InvalidInput"

(* getColoredEdges has returned from a call on the graph *)
Annotated == pc = "done" /\ graphShape = "graph"

(* C6: when getColoredEdges has returned for a source that is a node of the *)
(* graph, the output has as many entries as graph.edges, and entry i has    *)
(* the source, target and weight of input edge i; parallel edges are each   *)
(* emitted.                                                                 *)
C6_OneOutputPerEdge ==
  (Annotated /\ SourcePresent) =>
     /\ Len(coloredEdges) = Len(graph.edges)
     /\ \A i \in DOMAIN graph.edges :
          /\ coloredEdges[i].source = graph.edges[i].source
          /\ coloredEdges[i].target = graph.edges[i].target
          /\ coloredEdges[i].weight = graph.edges[i].weight

(* C6 witness: an annotated graph with a destination and two identical     *)
(* parallel edges                                                           *)
C6_Witness_ParallelEdges ==
  /\ Annotated /\ SourcePresent
  /\ destinationId \in NodeIds(graph)
  /\ \E i, j \in DOMAIN graph.edges : i # j /\ graph.edges[i] = graph.edges[j]

BothEndsPresent(g, e) == e.source \in NodeIds(g) /\ e.target \in NodeIds(g)

(* C7: every emitted edge marked as on the highlighted path (both of whose *)
(* ends are nodes) has as arrivalTime the distance of its end farther from *)
(* the source, whichever way it is stored, and as color                    *)
(* colorForTime(arrivalTime); the first edge of the path included.         *)
C7_ArrivalAtFartherEnd ==
  (Annotated /\ SourcePresent) =>
     \A i \in DOMAIN coloredEdges :
        (coloredEdges[i].isOnPath /\ BothEndsPresent(graph, graph.edges[i])) =>
           /\ coloredEdges[i].arrivalTime =
                Max({distances[graph.edges[i].source], distances[graph.edges[i].target]})
           /\ coloredEdges[i].color = getColorForTime(coloredEdges[i].arrivalTime)

ScenarioLine ==
  /\ graph.nodes = <<"A", "B", "C">>
  /\ Len(graph.edges) = 2
  /\ \E i, j \in DOMAIN graph.edges :
       /\ Joins(graph.edges[i], "A", "B") /\ graph.edges[i].weight = 5
       /\ Joins(graph.edges[j], "B", "C") /\ graph.edges[j].weight = 5

(* C8: on the graph with nodes A, B, C and edges A-B and B-C of weight 5,  *)
(* source A, destination C: with Medium traffic the distances are A 0,     *)
(* B 5, C 10, paths[C] = [A, B, C], edge A-B is highlighted with           *)
(* arrivalTime 5 and edge B-C with arrivalTime 10; with High traffic the   *)
(* distances are A 0, B 7.5, C 15.                                         *)
C8_LineScenario ==
  (Annotated /\ ScenarioLine /\ sourceId = "A" /\ destinationId = "C") =>
     /\ trafficLevel = "medium" =>
          /\ distances = ("A" :> 0 @@ "B" :> 5 * Scale @@ "C" :> 10 * Scale)
          /\ paths["C"] = <<"A", "B", "C">>
          /\ \A i \in DOMAIN coloredEdges :
               /\ Joins(graph.edges[i], "A", "B") =>
                    coloredEdges[i].isOnPath /\ coloredEdges[i].arrivalTime = 5 * Scale
               /\ Joins(graph.edges[i], "B", "C") =>
                    coloredEdges[i].isOnPath /\ coloredEdges[i].arrivalTime = 10 * Scale
     /\ trafficLevel = "high" =>
          distances = ("A" :> 0 @@ "B" :> 75 @@ "C" :> 15 * Scale)

ConsecutiveOnPath(e, path) ==
  \E j \in 1..(Len(path) - 1) : {e.source, e.target} = {path[j], path[j + 1]}

(* C9: when the destination is a node of the graph whose path from the     *)
(* source has more than one node, an emitted edge has isOnPath = true if   *)
(* and only if its unordered pair of ends is the unordered pair of two     *)
(* consecutive nodes of paths[destinationId].                              *)
C9_OnPathIffConsecutive ==
  (/\ Annotated /\ SourcePresent
   /\ destinationId \in NodeIds(graph)
   /\ Len(paths[destinationId]) > 1) =>
     \A i \in DOMAIN coloredEdges :
        coloredEdges[i].isOnPath <=>
           ConsecutiveOnPath(graph.edges[i], paths[destinationId])

(* C10: every emitted edge that has the source as one end (the other end   *)
(* being a node) and is not on the highlighted path has as arrivalTime the *)
(* distance of its other end and as color colorForTime(arrivalTime).       *)
C10_SourceEdgeArrival ==
  (Annotated /\ SourcePresent) =>
     \A i \in DOMAIN coloredEdges :
        (/\ Joins(graph.edges[i], sourceId, OtherEnd(graph.edges[i], sourceId))
         /\ OtherEnd(graph.edges[i], sourceId) \in NodeIds(graph)
         /\ ~coloredEdges[i].isOnPath) =>
           /\ coloredEdges[i].arrivalTime =
                distances[OtherEnd(graph.edges[i], sourceId)]
           /\ coloredEdges[i].color = getColorForTime(coloredEdges[i].arrivalTime)

AtSource(e) == e.source = sourceId \/ e.target = sourceId

BucketColors == {timeBuckets[k].color : k \in DOMAIN timeBuckets}

C12_NoPathNoHighlight ==
  (/\ Annotated /\ SourcePresent
   /\ \/ destinationId = Null
      \/ destinationId = sourceId
      \/ destinationId \in NodeIds(graph) \ Reachable(graph, sourceId)) =>
     \A i \in DOMAIN coloredEdges : ~coloredEdges[i].isOnPath

(* C12 witness: the destination is a node the source does not reach, on a *)
(* graph in which the source has an edge to another node                   *)
C12_Witness_UnreachableDestination ==
  /\ Annotated /\ SourcePresent
  /\ destinationId \in NodeIds(graph) \ Reachable(graph, sourceId)
  /\ \E i \in DOMAIN graph.edges :
       AtSource(graph.edges[i]) /\ BothEndsPresent(graph, graph.edges[i])

Called == pc \in {"done", "threw"}

(* C13: when getColoredEdges is called with a sourceId that is no node of *)
(* the graph, or with a graph value that is missing or lacks its node     *)
(* list or its edge list, it returns the empty sequence and no exception  *)
(* reaches the caller.                                                    *)
C13_InvalidInputGivesEmpty ==
  (Called /\ (graphShape # "graph" \/ ~SourcePresent)) =>
     pc = "done" /\ coloredEdges = <<>>

(* C13 witness: a returned call on a graph value without its node list,   *)
(* for a graph that has edges                                             *)
C13_Witness_NoNodeList ==
  /\ Called
  /\ graphShape = "noNodes"
  /\ Len(graph.edges) > 0

(* C14: a call of getColoredEdges with a non-null destinationId that is  *)
(* the id of no node returns, without an error, exactly the sequence the *)
(* call with destinationId = null returns on the same graph, source and  *)
(* traffic level.                                                        *)
C14_UnknownDestinationAsNull ==
  (/\ Called
   /\ graphShape = "graph"
   /\ destinationId # Null
   /\ destinationId \notin NodeIds(graph)) =>
     /\ pc = "done"
     /\ coloredEdges = getColoredEdges(graph, sourceId, trafficLevel, Null)

(* C14 witness: a returned call with a destination that is no node, on a *)
(* graph where the source has an edge                                    *)
C14_Witness_UnknownDestination ==
  /\ Annotated
  /\ SourcePresent
  /\ destinationId = MissingId
  /\ Len(coloredEdges) > 0
  /\ \E e \in Range(graph.edges) : AtSource(e) /\ BothEndsPresent(graph, e)

Finite(dist) == {n \in DOMAIN dist : dist[n] < Infinity}

(* C15: for a fixed graph and source, a larger traffic multiplier never  *)
(* decreases the distance of a node whose distance is finite, and the    *)
(* set of nodes with a finite distance is the same at every level.       *)
C15_MonotoneInTraffic ==
  Returned =>
     \A level \in TrafficLevel :
        LET slower == dijkstra(graph, sourceId, level).distances
        IN  /\ Finite(slower) = Finite(distances)
            /\ trafficMultipliers[level] >= trafficMultipliers[trafficLevel] =>
                  \A n \in Finite(distances) : slower[n] >= distances[n]

(* C15 witness: a result at the low level with a node whose distance is  *)
(* strictly larger at the high level                                     *)
C15_Witness_SlowerAtHigh ==
  /\ Returned
  /\ trafficLevel = "low"
  /\ \E n \in Finite(distances) :
        /\ distances[n] > 0
        /\ dijkstra(graph, sourceId, "high").distances[n] > distances[n]

(* the graph with only the edges whose two ends are nodes *)
WithoutDangling(g) ==
  [nodes |-> g.nodes,
   edges |-> SelectSeq(g.edges, LAMBDA e : BothEndsPresent(g, e))]

(* C17: an edge with an end that is the id of no node is never marked    *)
(* isOnPath, is emitted at its input position with the neutral color and *)
(* arrivalTime -1, and changes no node's distance or path.               *)
C17_DanglingEdgesInert ==
  /\ (Annotated /\ SourcePresent) =>
        /\ Len(coloredEdges) = Len(graph.edges)
        /\ \A i \in DOMAIN coloredEdges :
              ~BothEndsPresent(graph, graph.edges[i]) =>
                 /\ coloredEdges[i].source = graph.edges[i].source
                 /\ coloredEdges[i].target = graph.edges[i].target
                 /\ ~coloredEdges[i].isOnPath
                 /\ coloredEdges[i].color = NeutralColor
                 /\ coloredEdges[i].arrivalTime = NoArrival
  /\ Returned =>
        LET alone == dijkstra(WithoutDangling(graph), sourceId, trafficLevel)
        IN  distances = alone.distances /\ paths = alone.paths

(* C18: when the steps of two invocations interleave in any order, each  *)
(* returns what it returns alone: the result of dijkstra and of          *)
(* getColoredEdges of either invocation is the result of the call on its *)
(* own arguments, and the graph both were given is still the same.       *)
C18_InterleavedAsAlone ==
  /\ other.graph = graph
  /\ pc \in {"returned", "done"} =>
        [distances |-> distances, paths |-> paths]
           = dijkstra(graph, sourceId, trafficLevel)
  /\ Annotated =>
        coloredEdges = getColoredEdges(graph, sourceId, trafficLevel, destinationId)
  /\ other.pc \in {"returned", "done"} =>
        [distances |-> other.locals.distances, paths |-> other.paths]
           = dijkstra(graph, other.sourceId, other.trafficLevel)
  /\ other.pc = "done" =>
        other.coloredEdges = getColoredEdges(graph, other.sourceId,
                                             other.trafficLevel,
                                             other.destinationId)

(* C18 witness: both invocations have returned colored edges for the    *)
(* same graph, from different sources and with different distance maps  *)
C18_Witness_BothDone ==
  /\ pc = "done" /\ graphShape = "graph"
  /\ other.pc = "done"
  /\ other.sourceId # sourceId
  /\ SourcePresent /\ other.sourceId \in NodeIds(graph)
  /\ other.locals.distances # distances
  /\ Len(coloredEdges) > 0

(* the settlement steps at which node n was still unvisited *)
SettledBefore(n) == {i \in DOMAIN order : \A j \in 1..i : order[j] # n}

(* those of them whose node has an edge to n that gives n's distance *)
Producers(n) ==
  {i \in SettledBefore(n) :
     \E k \in Joining(graph, order[i], n) :
        distances[order[i]]
           + graph.edges[k].weight * trafficMultipliers[trafficLevel]
              = distances[n]}

(* C19: relaxation replaces a node's distance and predecessor only by a   *)
(* strictly smaller candidate, an equal candidate changing neither: at    *)
(* every point of the run the predecessor of a node is the first node in  *)
(* settlement order that produced its recorded distance, and a node no    *)
(* settled node produced a distance for still has its initial entries.    *)
C19_FirstProducerIsPredecessor ==
  pc \in {"loop", "returned"} =>
     \A n \in NodeIds(graph) :
        IF Producers(n) = {}
        THEN /\ previous[n] = Null
             /\ distances[n] = InitDistances(graph, sourceId)[n]
        ELSE previous[n] = order[Min(Producers(n))]

(* C19 witness: a returned result in which two different settled nodes   *)
(* produced the final distance of the same node                          *)
C19_Witness_TwoProducers ==
  /\ Returned
  /\ \E n \in NodeIds(graph) :
        \E i, j \in Producers(n) : order[i] # order[j]

PositionIn(nodes, n) == Min({i \in DOMAIN nodes : nodes[i] = n})

(* the node settled by the step just taken *)
Settled(ord) == ord[Len(ord)]

(* C20: at every selection step the node settled is an unvisited node of  *)
(* minimum current distance, and among the unvisited nodes that share     *)
(* that distance it is the one that comes first in graph.nodes.           *)
C20_TieBreakByNodeOrder ==
  [][order' # order =>
       /\ order' = Append(order, Settled(order'))
       /\ Settled(order') \in unvisited
       /\ \A n \in unvisited :
             /\ distances[Settled(order')] <= distances[n]
             /\ (distances[n] = distances[Settled(order')] /\ n # Settled(order')) =>
                   PositionIn(graph.nodes, Settled(order'))
                      < PositionIn(graph.nodes, n)]_vars

(* C20 witness: the node just settled was tied with a node that is still *)
(* unvisited: the two have the same finite distance and the unvisited    *)
(* one did not get it from the node just settled                         *)
C20_Witness_Tie ==
  /\ pc = "loop"
  /\ order # <<>>
  /\ \E n \in unvisited :
        /\ distances[n] = distances[Settled(order)]
        /\ distances[n] < Infinity
        /\ previous[n] # Settled(order)

(* C21: the main loop of dijkstra terminates: every iteration takes       *)
(* exactly one node out of the unvisited set or leaves the loop because   *)
(* every unvisited node has an infinite distance, so there are at most    *)
(* |nodes| iterations and the call returns; after an early exit the nodes *)
(* left unvisited have an infinite distance and no predecessor.           *)
C21_LoopTerminates ==
  /\ [](/\ Len(order) + Cardinality(unvisited) = Cardinality(NodeIds(graph))
        /\ Len(order) <= Len(graph.nodes)
        /\ Range(order) \cap unvisited = {}
        /\ (pc # "loop" /\ unvisited # {}) =>
              \A n \in unvisited :
                 distances[n] = Infinity /\ previous[n] = Null)
  /\ [][pc = "loop" =>
           \/ /\ Cardinality(unvisited') = Cardinality(unvisited) - 1
              /\ unvisited' \subseteq unvisited
              /\ pc' = "loop"
           \/ /\ unvisited' = unvisited
              /\ pc' = "returned"
              /\ \A n \in unvisited : distances[n] = Infinity]_vars
  /\ <>(pc # "loop")

(* C21 witness: the call has returned after an early exit that came after *)
(* at least two iterations and left a node unvisited                      *)
C21_Witness_EarlyExit ==
  /\ Returned
  /\ Len(order) >= 2
  /\ unvisited # {}

(* C22: once a node has been removed from the unvisited set, no later   *)
(* step of the same computation changes its recorded distance or its    *)
(* predecessor.                                                         *)
C22_SettledIsFinal ==
  [][\A n \in NodeIds(graph) \ unvisited :
        distances'[n] = distances[n] /\ previous'[n] = previous[n]]_vars

(* C22 witness: the node just settled has an edge to a node settled     *)
(* before it, and the candidate along that edge is not larger than the  *)
(* distance recorded for that node                                      *)
C22_Witness_CandidateForSettled ==
  /\ pc = "loop"
  /\ Len(order) >= 2
  /\ \E i \in 1..(Len(order) - 1) :
        \E k \in Joining(graph, order[i], Settled(order)) :
           distances[Settled(order)]
              + graph.edges[k].weight * trafficMultipliers[trafficLevel]
                 <= distances[order[i]]

(* the chain of predecessor links from n reaches the source in at most k *)
(* links                                                                 *)
RECURSIVE ChainEnds(_, _)
ChainEnds(n, k) ==
  IF n = sourceId THEN TRUE
  ELSE IF k = 0 \/ previous[n] = Null THEN FALSE
  ELSE ChainEnds(previous[n], k - 1)

NoRepeat(path) ==
  \A i, j \in DOMAIN path : path[i] = path[j] => i = j

(* C23: the predecessor links contain no cycle and every chain of links *)
(* ends at the source, which itself has no predecessor; every non-empty *)
(* returned path starts with sourceId, ends with the node it is stored  *)
(* under and contains no node twice.                                     *)
C23_LinksEndAtSource ==
  /\ pc \in {"loop", "returned"} =>
        \A n \in NodeIds(graph) :
           /\ previous[n] # Null => ChainEnds(n, Len(graph.nodes) - 1)
           /\ n = sourceId => previous[n] = Null
  /\ Returned =>
        \A n \in NodeIds(graph) :
           paths[n] # <<>> =>
              /\ paths[n][1] = sourceId
              /\ paths[n][Len(paths[n])] = n
              /\ NoRepeat(paths[n])

(* C23 witness: a returned path of three nodes *)
C23_Witness_LongPath ==
  /\ Returned
  /\ \E n \in NodeIds(graph) : Len(paths[n]) >= 3

(* C24: with non-negative edge weights the source is the first node    *)
(* settled and the nodes are settled in non-decreasing order of         *)
(* distance (the distance of a settled node is the one it had when it   *)
(* was removed from the unvisited set).                                 *)
C24_SettledInDistanceOrder ==
  pc \in {"loop", "returned"} =>
     /\ order # <<>> => order[1] = sourceId
     /\ \A i, j \in DOMAIN order :
           i < j => distances[order[i]] <= distances[order[j]]

(* C24 witness: three nodes settled at strictly increasing distances, in *)
(* an order that is not the order of graph.nodes                         *)
C24_Witness_OutOfNodeOrder ==
  /\ Returned
  /\ Len(order) >= 3
  /\ distances[order[1]] < distances[order[2]]
  /\ distances[order[2]] < distances[order[3]]
  /\ PositionIn(graph.nodes, order[2]) > PositionIn(graph.nodes, order[3])

(* the graph with the source and target labels of edge k swapped *)
Swapped(g, k) ==
  [nodes |-> g.nodes,
   edges |-> [g.edges EXCEPT ![k] = [source |-> g.edges[k].target,
                                     target |-> g.edges[k].source,
                                     weight |-> g.edges[k].weight]]]

(* C25: swapping the source and target labels of any one edge changes  *)
(* neither the distances nor the paths dijkstra returns, and neither    *)
(* the isOnPath flag, the arrivalTime nor the color getColoredEdges     *)
(* emits for that edge or for any other edge.                           *)
C25_OrientationIrrelevant ==
  (Annotated /\ SourcePresent) =>
     \A k \in DOMAIN graph.edges :
        LET r == dijkstra(Swapped(graph, k), sourceId, trafficLevel)
            out == Annotate(Swapped(graph, k), sourceId, destinationId, r)
        IN  /\ r.distances = distances
            /\ r.paths = paths
            /\ Len(out) = Len(coloredEdges)
            /\ \A j \in DOMAIN coloredEdges :
                  /\ out[j].isOnPath = coloredEdges[j].isOnPath
                  /\ out[j].arrivalTime = coloredEdges[j].arrivalTime
                  /\ out[j].color = coloredEdges[j].color

(* C26: in every output of getColoredEdges an edge has an arrivalTime    *)
(* other than -1 exactly when it has isOnPath = true; an edge with       *)
(* isOnPath = false has the neutral color, and an edge with isOnPath =   *)
(* true has a finite arrivalTime >= 0 and the color                      *)
(* colorForTime(arrivalTime).                                            *)
C26_ArrivalIffOnPath ==
  Annotated =>
     \A i \in DOMAIN coloredEdges :
        LET e == coloredEdges[i]
        IN  /\ (e.arrivalTime # NoArrival) <=> e.isOnPath
            /\ ~e.isOnPath => e.color = NeutralColor
            /\ e.isOnPath =>
                  /\ e.arrivalTime >= 0
                  /\ e.arrivalTime < Infinity
                  /\ e.color = getColorForTime(e.arrivalTime)

(* C27: in the Index page, after any sequence of user actions,           *)
(* destinationNodeId is never equal to sourceNodeId.                     *)
C27_DestinationIsNotSource ==
  page.destinationNodeId # page.sourceNodeId

(* C28: in the Index page, after any sequence of user actions,          *)
(* sourceNodeId is the id of a node of the current graph and            *)
(* destinationNodeId is null or the id of a node of the current graph;  *)
(* generating a new graph sets the source to the first node of the new  *)
(* graph and the destination to null.                                   *)
C28_SelectionWithinGraph ==
  /\ [](/\ page.sourceNodeId \in NodeIds(page.randomGraph)
        /\ page.destinationNodeId \in NodeIds(page.randomGraph) \cup {Null})
  /\ [][page'.randomGraph # page.randomGraph =>
           /\ page'.sourceNodeId = page'.randomGraph.nodes[1]
           /\ page'.destinationNodeId = Null]_vars

(* C28 witness: a graph of the least node count has been generated, and  *)
(* the page shows the results from its first node                        *)
C28_Witness_NewGraph ==
  /\ PageIdle
  /\ Len(page.randomGraph.nodes) = MinNodeCount
  /\ page.sourceNodeId = page.randomGraph.nodes[1]
  /\ page.destinationNodeId = Null
  /\ DOMAIN page.distances = NodeIds(page.randomGraph)

(* C29: the distances the Index page passes to the results panel are    *)
(* the dijkstra distances times 1.2 for every node with a finite        *)
(* distance when timeOfDay is in 7..9 or 16..18, and the dijkstra       *)
(* distances unchanged at every other hour; infinite distances stay     *)
(* infinite (page distances are counted in hundredths, dijkstra's in    *)
(* tenths).                                                             *)
C29_RushHourDistances ==
  PageIdle =>
     LET d == dijkstra(page.randomGraph, page.sourceNodeId,
                       page.trafficLevel).distances
     IN  /\ DOMAIN page.distances = DOMAIN d
         /\ \A n \in DOMAIN d :
               page.distances[n] =
                  IF d[n] = Infinity THEN Infinity
                  ELSE IF page.timeOfDay \in (7..9) \cup (16..18)
                       THEN d[n] * 12
                       ELSE d[n] * 10

(* C29 witness: at 18 hours the results panel gets, for a node away from *)
(* the source, more than its dijkstra distance                           *)
C29_Witness_RushHourBound ==
  /\ PageIdle
  /\ page.timeOfDay = 18
  /\ \E n \in DOMAIN page.distances :
        /\ page.distances[n] > 0
        /\ page.distances[n] < Infinity
        /\ page.distances[n] >
              10 * dijkstra(page.randomGraph, page.sourceNodeId,
                            page.trafficLevel).distances[n]

(* the graph generateRandomGraph returns *)
Generated == [nodes |-> gen.nodes, edges |-> gen.edges]

(* C30: for every node count of at least 2 and every outcome of the      *)
(* random choices, the graph generateRandomGraph returns is connected,   *)
(* every edge joins two distinct nodes of the graph, and every weight is *)
(* an integer from 3 to 20.                                              *)
C30_GeneratedGraphConnected ==
  gen.pc = "done" =>
     /\ \A n \in NodeIds(Generated) : Reachable(Generated, n) = NodeIds(Generated)
     /\ \A k \in DOMAIN gen.edges :
           /\ gen.edges[k].source \in NodeIds(Generated)
           /\ gen.edges[k].target \in NodeIds(Generated)
           /\ gen.edges[k].source # gen.edges[k].target
           /\ gen.edges[k].weight \in 3..20

(* C30 witness: a returned graph of three nodes whose last edge was added *)
(* by ensureConnectedGraph: without it the first node is cut off          *)
C30_Witness_Repaired ==
  /\ gen.pc = "done"
  /\ Len(gen.nodes) = 3
  /\ Len(gen.edges) >= 2
  /\ Reachable([nodes |-> gen.nodes,
                edges |-> SubSeq(gen.edges, 1, Len(gen.edges) - 1)],
               gen.nodes[1]) # NodeIds(Generated)

====
